---- MODULE Spec2Model ----
(***************************************************************************)
(* bat_tracking_pipeline.py: the BatTrackingPipeline class and the script  *)
(* entry point analyze_baseball_swing.                                     *)
(*                                                                         *)
(* One behaviour is one call of one public entry point (the variable       *)
(* entry): the script entry analyze_baseball_swing, or a method of the     *)
(* class called on an instance holding the attributes __init__ assigns.    *)
(* pc is the source line about to run.  External library calls             *)
(* (baseballcv, the detection and the context model) either return or      *)
(* raise.  Confidences are in hundredths (0.30 is 30); boxes have          *)
(* coordinates in 0..1, for which arctan2 in degrees is exact.             *)
(***************************************************************************)
EXTENDS Integers, Sequences, FiniteSets, TLC

VARIABLES entry, pc, stack, raised, result, stdout, attrs,
          max_attempts, attempt, loadLog, sleeps,
          frames, bat_results, frame_data, sequence_data, trajectories,
          game_context, predictLog, contextLog

vars == <<entry, pc, stack, raised, result, stdout, attrs,
          max_attempts, attempt, loadLog, sleeps,
          frames, bat_results, frame_data, sequence_data, trajectories,
          game_context, predictLog, contextLog>>

lmrVars == <<max_attempts, attempt, loadLog, sleeps>>
dataVars == <<frames, bat_results, frame_data, sequence_data, trajectories,
              game_context, predictLog, contextLog>>

---------------------------------------------------------------------------
(* Bounds of the model *)

MaxAttemptsArg == 3
MaxDets == 2
MaxFrames == 2
MaxVideoFrames == 1

(* Program constants *)

DefaultMaxAttempts == 3
ConfThreshold == 30

---------------------------------------------------------------------------
(* Python values *)

NoneVal == [kind |-> "None"]
NoExc == [type |-> "none", at |-> "none"]

(* The entry point has not returned *)
NoResult == [kind |-> "pending"]

(* The names bound in the module's global namespace: the imports of lines  *)
(* 1-5 and the two top-level definitions.  A name outside this set raises  *)
(* NameError when it is evaluated.                                         *)
ModuleGlobals ==
  {"LoadTools", "DataTools", "Florence2", "cv2", "np", "datetime",
   "BatTrackingPipeline", "analyze_baseball_swing"}

NameDefined(name) == name \in ModuleGlobals

(* The attributes the class body defines.                                  *)
ClassAttrs ==
  {"__init__", "load_model_with_retry", "process_sequence",
   "process_frame_results", "calculate_bat_angle", "analyze_sequence",
   "extract_clean_trajectories", "calculate_swing_metrics"}

(* The instance attributes __init__ assigns (lines 14, 15, 18, 19).        *)
InitAttrs == {"load_tools", "data_tools", "bat_model", "context_model"}

(* self.<name>: found on the instance or on the class, else AttributeError *)
HasAttr(instAttrs, name) == name \in (instAttrs \cup ClassAttrs)

---------------------------------------------------------------------------
(* Inputs *)

RawDets ==
  {[xyxy |-> <<0, 0, 1, 1>>, conf |-> 30],
   [xyxy |-> <<0, 0, 1, 1>>, conf |-> 31],
   [xyxy |-> <<0, 1, 1, 0>>, conf |-> 31],
   [xyxy |-> <<0, 1, 1, 0>>, conf |-> 90]}

SeqsUpTo(S, n) == UNION {[1..k -> S] : k \in 0..n}

BatResults == {[timestamp |-> 0, boxes |-> b] : b \in SeqsUpTo(RawDets, MaxDets)}

Videos == SeqsUpTo(BatResults, MaxVideoFrames)

---------------------------------------------------------------------------
(* calculate_bat_angle, lines 101-107 *)

(* np.degrees(np.arctan2(dy, dx)) for dy, dx in -1..1 *)
Atan2Deg(dy, dx) ==
  IF dy = 0 THEN (IF dx < 0 THEN 180 ELSE 0)
  ELSE IF dy > 0 THEN (IF dx > 0 THEN 45 ELSE IF dx = 0 THEN 90 ELSE 135)
  ELSE (IF dx > 0 THEN -45 ELSE IF dx = 0 THEN -90 ELSE -135)

CalculateBatAngle(bat_box) ==
  LET x1 == bat_box[1]
      y1 == bat_box[2]
      x2 == bat_box[3]
      y2 == bat_box[4]
  IN  Atan2Deg(y2 - y1, x2 - x1)

---------------------------------------------------------------------------
(* process_frame_results, lines 79-99 *)

(* A test that keeps a detection at exactly the threshold *)
KeepsAtOrAbove(detection) == detection.conf >= ConfThreshold

(* line 91: the confidence test *)
Keeps(detection) == detection.conf > ConfThreshold

(* lines 92-97: the dictionary appended for a kept detection *)
DetectionRecord(detection) ==
  [position |-> detection.xyxy,
   confidence |-> detection.conf,
   angle |-> CalculateBatAngle(detection.xyxy)]

(* lines 90-97: the loop over bat_results.boxes *)
RECURSIVE CollectDetections(_, _)
CollectDetections(boxes, acc) ==
  IF boxes = <<>> THEN acc
  ELSE CollectDetections(Tail(boxes),
                         IF Keeps(Head(boxes))
                         THEN Append(acc, DetectionRecord(Head(boxes)))
                         ELSE acc)

ProcessFrameResults(results) ==
  [timestamp |-> results.timestamp,
   bat_detections |-> CollectDetections(results.boxes, <<>>),
   bat_angle |-> "None"]

(* The frame records process_frame_results can produce *)
FrameDatas == {ProcessFrameResults(b) : b \in BatResults}

SequenceDatas == SeqsUpTo(FrameDatas, MaxFrames)

---------------------------------------------------------------------------
(* extract_clean_trajectories, lines 130-151 *)

(* The detection with the smallest confidence, as min() would return *)
LeastConfidentDetection(bat_detections) ==
  LET i == CHOOSE i \in 1..Len(bat_detections) :
             /\ \A j \in 1..Len(bat_detections) :
                  bat_detections[j].confidence >= bat_detections[i].confidence
             /\ \A j \in 1..(i - 1) :
                  bat_detections[j].confidence > bat_detections[i].confidence
  IN  bat_detections[i]

(* lines 139-142: max(..., key=confidence), which returns the first of the *)
(* items with the largest key                                              *)
BestDetection(bat_detections) ==
  LET i == CHOOSE i \in 1..Len(bat_detections) :
             /\ \A j \in 1..Len(bat_detections) :
                  bat_detections[j].confidence <= bat_detections[i].confidence
             /\ \A j \in 1..(i - 1) :
                  bat_detections[j].confidence < bat_detections[i].confidence
  IN  bat_detections[i]

(* An entry that is the whole best detection, confidence included *)
TrajectoryEntryWholeDetection(fd) ==
  IF fd.bat_detections # <<>>
  THEN BestDetection(fd.bat_detections)
  ELSE NoneVal

(* lines 137-148: the entry appended for one frame *)
TrajectoryEntry(fd) ==
  IF fd.bat_detections # <<>>
  THEN LET best_detection == BestDetection(fd.bat_detections)
       IN  [position |-> best_detection.position,
            angle |-> best_detection.angle]
  ELSE NoneVal

(* lines 134-148: the loop over sequence_data *)
RECURSIVE BuildTrajectories(_, _)
BuildTrajectories(data, acc) ==
  IF data = <<>> THEN acc
  ELSE BuildTrajectories(Tail(data), Append(acc, TrajectoryEntry(Head(data))))

---------------------------------------------------------------------------
(* Exceptions and returns *)

(* An exception raised at line `at` with the call stack `stack`.  The only *)
(* handler outside load_model_with_retry is the try of lines 179-185,      *)
(* which covers the call of line 180 and nothing else: it prints and       *)
(* returns None.  Any other exception leaves the entry point.              *)
Raise(type, at) ==
  /\ pc' = "done"
  /\ stack' = <<>>
  /\ IF \E i \in DOMAIN stack : stack[i] = "analyze_baseball_swing:180"
     THEN /\ raised' = NoExc
          /\ result' = NoneVal
          /\ stdout' = Append(stdout, <<"Analysis failed", type>>)
     ELSE /\ raised' = [type |-> type, at |-> at]
          /\ result' = result
          /\ stdout' = stdout

(* Lines 18-22 after load_model_with_retry has returned `model`, then      *)
(* lines 179-180: Florence2() returns or raises, self.setup_logging is     *)
(* looked up, and the constructed pipeline's process_sequence is called    *)
(* inside the try.                                                         *)
InitRest(model) ==
  \E florence \in {"ok", "raise"} :
    IF florence = "raise"
    THEN /\ attrs' = attrs \cup {"bat_model"}
         /\ Raise("ExternalError", "init_19")
    ELSE /\ attrs' = attrs \cup {"bat_model", "context_model"}
         /\ IF HasAttr(attrs \cup {"bat_model", "context_model"}, "setup_logging")
            THEN /\ pc' = "ps_43"
                 /\ stack' = <<"analyze_baseball_swing:180">>
                 /\ UNCHANGED <<raised, result, stdout>>
            ELSE Raise("AttributeError", "init_22")

(* load_model_with_retry returns `value`: to its caller __init__ (line 18) *)
(* or, called directly, to the caller of the entry point.                  *)
ReturnFromLoadModel(value) ==
  IF stack # <<>> /\ stack[Len(stack)] = "__init__:18"
  THEN InitRest(value)
  ELSE /\ pc' = "done"
       /\ result' = value
       /\ UNCHANGED <<stack, raised, stdout, attrs>>

---------------------------------------------------------------------------
(* analyze_baseball_swing, lines 173-185, and __init__, lines 12-22 *)

(* line 177: the constructor is called before the try is entered *)
ABS_Construct ==
  /\ pc = "abs_177"
  /\ pc' = "init_14"
  /\ stack' = Append(stack, "analyze_baseball_swing:177")
  /\ UNCHANGED <<entry, raised, result, stdout, attrs, lmrVars, dataVars>>

(* line 14: self.load_tools = LoadTools() *)
Init_LoadTools ==
  /\ pc = "init_14"
  /\ \E outcome \in {"ok", "raise"} :
       IF outcome = "ok"
       THEN /\ attrs' = attrs \cup {"load_tools"}
            /\ pc' = "init_15"
            /\ UNCHANGED <<stack, raised, result, stdout>>
       ELSE /\ Raise("ExternalError", "init_14")
            /\ UNCHANGED attrs
  /\ UNCHANGED <<entry, lmrVars, dataVars>>

(* line 15: self.data_tools = DataTools() *)
Init_DataTools ==
  /\ pc = "init_15"
  /\ \E outcome \in {"ok", "raise"} :
       IF outcome = "ok"
       THEN /\ attrs' = attrs \cup {"data_tools"}
            /\ pc' = "init_18"
            /\ UNCHANGED <<stack, raised, result, stdout>>
       ELSE /\ Raise("ExternalError", "init_15")
            /\ UNCHANGED attrs
  /\ UNCHANGED <<entry, lmrVars, dataVars>>

(* line 18: self.load_model_with_retry("bat_tracking"), max_attempts=3 *)
Init_LoadModel ==
  /\ pc = "init_18"
  /\ pc' = "lmr_28"
  /\ stack' = Append(stack, "__init__:18")
  /\ max_attempts' = DefaultMaxAttempts
  /\ attempt' = 0
  /\ UNCHANGED <<entry, raised, result, stdout, attrs, loadLog, sleeps, dataVars>>

---------------------------------------------------------------------------
(* load_model_with_retry, lines 24-36 *)

(* A loop bound that is off by one: range(max_attempts + 1) *)
RangeHasNextInclusive(i, n) == i <= n

(* line 28: whether `for attempt in range(max_attempts)` has a next item *)
RangeHasNext(i, n) == i < n

(* line 28: the loop header; falling off the loop returns None *)
LMR_For ==
  /\ pc = "lmr_28"
  /\ IF RangeHasNext(attempt, max_attempts)
     THEN /\ pc' = "lmr_29"
          /\ UNCHANGED <<stack, raised, result, stdout, attrs>>
     ELSE ReturnFromLoadModel(NoneVal)
  /\ UNCHANGED <<entry, lmrVars, dataVars>>

(* line 33: the attempt after which the failure is raised *)
IsLastAttempt(i, n) == i = n - 1

(* lines 29-35: the try body and the handler up to the print.  load_model  *)
(* returns a path or raises; YOLO is then looked up in the module globals; *)
(* `except Exception` catches either failure.                              *)
LMR_Try ==
  /\ pc = "lmr_29"
  /\ \E outcome \in (IF HasAttr(attrs, "load_tools") THEN {"ok", "raise"} ELSE {"raise"}) :
       /\ loadLog' = Append(loadLog, outcome)
       /\ IF outcome = "ok" /\ NameDefined("YOLO")
          THEN ReturnFromLoadModel([kind |-> "model", attempt |-> attempt + 1])
          ELSE IF IsLastAttempt(attempt, max_attempts)
               THEN /\ Raise("Exception", "lmr_34")
                    /\ UNCHANGED attrs
               ELSE /\ stdout' = Append(stdout, <<"Attempt failed, retrying", attempt + 1>>)
                    /\ pc' = "lmr_36"
                    /\ UNCHANGED <<stack, raised, result, attrs>>
  /\ UNCHANGED <<entry, max_attempts, attempt, sleeps, dataVars>>

(* line 36: time.sleep(1) inside the handler, then the next iteration *)
LMR_Sleep ==
  /\ pc = "lmr_36"
  /\ IF NameDefined("time")
     THEN /\ sleeps' = sleeps + 1
          /\ attempt' = attempt + 1
          /\ pc' = "lmr_28"
          /\ UNCHANGED <<stack, raised, result, stdout>>
     ELSE /\ Raise("NameError", "lmr_36")
          /\ UNCHANGED <<sleeps, attempt>>
  /\ UNCHANGED <<entry, attrs, max_attempts, loadLog, dataVars>>

---------------------------------------------------------------------------
(* process_sequence, lines 38-77, and analyze_sequence, line 114 *)

(* lines 44-77 and 114, reached when self.logger exists: the frames are    *)
(* extracted, each frame is predicted on once in order, the context model  *)
(* runs on frame 0 after its prediction, and analyze_sequence calls        *)
(* extract_clean_trajectories.  An external call may raise instead.        *)
ProcessSequenceRest ==
  \E outcome \in {"ok", "raise"} :
    IF outcome = "raise"
    THEN /\ Raise("ExternalError", "ps_44")
         /\ UNCHANGED <<sequence_data, predictLog, contextLog, game_context>>
    ELSE /\ sequence_data' = [i \in 1..Len(frames) |-> ProcessFrameResults(frames[i])]
         /\ predictLog' = [i \in 1..Len(frames) |-> i]
         /\ contextLog' = IF frames # <<>> THEN <<1>> ELSE <<>>
         /\ game_context' = IF frames # <<>> THEN [kind |-> "context", frame |-> 1]
                            ELSE NoneVal
         /\ pc' = "ect_134"
         /\ stack' = stack \o <<"process_sequence:77", "analyze_sequence:114">>
         /\ UNCHANGED <<raised, result, stdout>>

(* line 43: self.logger.info(...) is the first statement *)
PS_Enter ==
  /\ pc = "ps_43"
  /\ IF HasAttr(attrs, "logger")
     THEN ProcessSequenceRest
     ELSE /\ Raise("AttributeError", "ps_43")
          /\ UNCHANGED <<sequence_data, predictLog, contextLog, game_context>>
  /\ UNCHANGED <<entry, attrs, lmrVars, frames, bat_results, frame_data, trajectories>>

---------------------------------------------------------------------------
(* process_frame_results called on one prediction result, lines 79-99 *)

PFR_Call ==
  /\ pc = "pfr_83"
  /\ frame_data' = ProcessFrameResults(bat_results)
  /\ result' = ProcessFrameResults(bat_results)
  /\ pc' = "done"
  /\ UNCHANGED <<entry, stack, raised, stdout, attrs, lmrVars, frames, bat_results,
                 sequence_data, trajectories, game_context, predictLog, contextLog>>

---------------------------------------------------------------------------
(* extract_clean_trajectories, lines 130-151 *)

(* lines 134-148: the trajectory list is built *)
ECT_Build ==
  /\ pc = "ect_134"
  /\ trajectories' = BuildTrajectories(sequence_data, <<>>)
  /\ pc' = "ect_151"
  /\ UNCHANGED <<entry, stack, raised, result, stdout, attrs, lmrVars, frames,
                 bat_results, frame_data, sequence_data, game_context, predictLog,
                 contextLog>>

(* line 151: self.interpolate_missing_trajectories is looked up; the class *)
(* defines no such method, so there is no body to run                      *)
ECT_Interpolate ==
  /\ pc = "ect_151"
  /\ ~HasAttr(attrs, "interpolate_missing_trajectories")
  /\ Raise("AttributeError", "ect_151")
  /\ UNCHANGED <<entry, attrs, lmrVars, dataVars>>

---------------------------------------------------------------------------
(* The entry points *)

Entries ==
  {"analyze_baseball_swing", "load_model_with_retry", "process_sequence",
   "process_frame_results", "extract_clean_trajectories"}

EntryLine(e) ==
  CASE e = "analyze_baseball_swing" -> "abs_177"
    [] e = "load_model_with_retry" -> "lmr_28"
    [] e = "process_sequence" -> "ps_43"
    [] e = "process_frame_results" -> "pfr_83"
    [] e = "extract_clean_trajectories" -> "ect_134"

Init ==
  /\ entry \in Entries
  /\ pc = EntryLine(entry)
  /\ stack = <<>>
  /\ raised = NoExc
  /\ result = NoResult
  /\ stdout = <<>>
  /\ attrs = IF entry = "analyze_baseball_swing" THEN {} ELSE InitAttrs
  /\ max_attempts \in (IF entry = "load_model_with_retry"
                       THEN (-1)..MaxAttemptsArg ELSE {0})
  /\ attempt = 0
  /\ loadLog = <<>>
  /\ sleeps = 0
  /\ frames \in (IF entry \in {"analyze_baseball_swing", "process_sequence"}
                 THEN Videos ELSE {<<>>})
  /\ bat_results \in (IF entry = "process_frame_results"
                      THEN BatResults ELSE {[timestamp |-> 0, boxes |-> <<>>]})
  /\ frame_data = NoneVal
  /\ sequence_data \in (IF entry = "extract_clean_trajectories"
                        THEN SequenceDatas ELSE {<<>>})
  /\ trajectories = <<>>
  /\ game_context = NoneVal
  /\ predictLog = <<>>
  /\ contextLog = <<>>

Next ==
  \/ ABS_Construct
  \/ Init_LoadTools
  \/ Init_DataTools
  \/ Init_LoadModel
  \/ LMR_For
  \/ LMR_Try
  \/ LMR_Sleep
  \/ PS_Enter
  \/ PFR_Call
  \/ ECT_Build
  \/ ECT_Interpolate

Spec == Init /\ [][Next]_vars

---------------------------------------------------------------------------
(* Properties *)

LoadModelCalled == max_attempts >= 1

AllLoadsRaised == \A i \in DOMAIN loadLog : loadLog[i] = "raise"

NumRetryMessages ==
  Cardinality({i \in DOMAIN stdout : stdout[i][1] = "Attempt failed, retrying"})

(* The trajectory list has been built and handed to interpolation *)
TrajectoriesBuilt == pc = "ect_151" \/ raised.at = "ect_151"

Range(seq) == {seq[i] : i \in DOMAIN seq}

(* C1: load_model_with_retry with max_attempts = N >= 1, when every load   *)
(* attempt fails, attempts the load exactly N times and then raises the    *)
(* generic Exception; nothing else escapes and nothing is raised before    *)
(* the N-th attempt.                                                       *)
C1_RetryExhaustsThenRaises ==
  (pc = "done" /\ LoadModelCalled /\ AllLoadsRaised)
    => (Len(loadLog) = max_attempts /\ raised.type = "Exception")

(* C2: for every frame with a non-empty bat_detections list, the detection *)
(* whose position and angle are copied into the trajectory entry has a     *)
(* confidence at least that of every other detection of the frame.         *)
C2_BestDetectionHasHighestConfidence ==
  TrajectoriesBuilt =>
    \A i \in DOMAIN sequence_data :
      sequence_data[i].bat_detections # <<>> =>
        /\ i \in DOMAIN trajectories
        /\ "position" \in DOMAIN trajectories[i]
        /\ \E d \in Range(sequence_data[i].bat_detections) :
             /\ d.position = trajectories[i].position
             /\ d.angle = trajectories[i].angle
             /\ \A o \in Range(sequence_data[i].bat_detections) :
                  d.confidence >= o.confidence

C2_Witness ==
  /\ TrajectoriesBuilt
  /\ \E i \in DOMAIN sequence_data :
       /\ Len(sequence_data[i].bat_detections) = 2
       /\ sequence_data[i].bat_detections[1].confidence
            < sequence_data[i].bat_detections[2].confidence
       /\ trajectories[i].position = sequence_data[i].bat_detections[2].position
       /\ trajectories[i].position # sequence_data[i].bat_detections[1].position

(* C3: apart from model loading, every error raised while                  *)
(* analyze_baseball_swing runs, pipeline construction included, is caught: *)
(* no exception reaches the caller.                                        *)
C3_NoExceptionEscapesAnalyze ==
  (entry = "analyze_baseball_swing" /\ pc = "done"
     /\ raised.at \notin {"lmr_34", "lmr_36"})
    => raised.type = "none"

(* C4: when every external call succeeds on a video of k frames,           *)
(* process_sequence returns a structure with exactly the fields            *)
(* sequence_length, bat_trajectory, swing_metrics, game_situation and      *)
(* analysis_timestamp, and sequence_length = k.                            *)
C4_ProcessSequenceReturnsResult ==
  (entry = "process_sequence" /\ pc = "done" /\ raised.type # "ExternalError")
    => /\ DOMAIN result = {"sequence_length", "bat_trajectory", "swing_metrics",
                           "game_situation", "analysis_timestamp"}
       /\ result.sequence_length = Len(frames)

(* C5: after each failed attempt other than the last, exactly one retry    *)
(* message is printed and exactly one sleep happens before the next        *)
(* attempt starts.                                                         *)
C5_FixedDelayBetweenAttempts ==
  (pc = "done" /\ LoadModelCalled)
    => (sleeps = NumRetryMessages /\ Len(loadLog) = NumRetryMessages + 1)

(* C6: if the i-th load attempt is the first that succeeds, the function   *)
(* returns the model built from it, makes no further attempt and raises    *)
(* nothing.                                                                *)
C6_FirstSuccessReturnsModel ==
  (pc = "done" /\ LoadModelCalled /\ entry = "load_model_with_retry"
     /\ \E i \in DOMAIN loadLog : loadLog[i] = "ok")
    => LET first == CHOOSE i \in DOMAIN loadLog :
                      /\ loadLog[i] = "ok"
                      /\ \A j \in 1..(i - 1) : loadLog[j] = "raise"
       IN  /\ result = [kind |-> "model", attempt |-> first]
           /\ raised = NoExc
           /\ Len(loadLog) = first

(* C7: process_sequence runs bat detection exactly once on every frame, in *)
(* order, and context inference exactly once, on the first frame; with no  *)
(* frames the context model is never called.                               *)
C7_EachFramePredictedOnce ==
  (entry = "process_sequence" /\ pc = "done" /\ raised.type # "ExternalError")
    => /\ predictLog = [i \in 1..Len(frames) |-> i]
       /\ contextLog = (IF frames # <<>> THEN <<1>> ELSE <<>>)

(* C8: the trajectory list handed to interpolation has one entry per frame *)
(* of sequence_data, in frame order: None exactly for a frame with no      *)
(* detections, otherwise a record of only the position and angle of a      *)
(* detection of that frame.                                                *)
C8_OneEntryPerFrame ==
  TrajectoriesBuilt =>
    /\ Len(trajectories) = Len(sequence_data)
    /\ \A i \in DOMAIN trajectories :
         IF sequence_data[i].bat_detections = <<>>
         THEN trajectories[i] = NoneVal
         ELSE /\ DOMAIN trajectories[i] = {"position", "angle"}
              /\ \E d \in Range(sequence_data[i].bat_detections) :
                   /\ d.position = trajectories[i].position
                   /\ d.angle = trajectories[i].angle

C8_Witness ==
  /\ pc = "ect_151"
  /\ Len(sequence_data) = 2
  /\ sequence_data[1].bat_detections = <<>>
  /\ sequence_data[2].bat_detections # <<>>
  /\ trajectories[1] = NoneVal
  /\ trajectories[2] # NoneVal

(* C9: process_frame_results keeps a detection iff its confidence is       *)
(* strictly above 0.30, keeps the kept ones in their order, and sets       *)
(* bat_angle to None.                                                      *)
StrictlyAboveThreshold(d) == d.conf > ConfThreshold

C9_KeepsStrictlyAboveThreshold ==
  (entry = "process_frame_results" /\ pc = "done") =>
    LET kept == SelectSeq(bat_results.boxes, StrictlyAboveThreshold)
    IN  /\ frame_data.bat_angle = "None"
        /\ Len(frame_data.bat_detections) = Len(kept)
        /\ \A i \in DOMAIN kept :
             /\ frame_data.bat_detections[i].position = kept[i].xyxy
             /\ frame_data.bat_detections[i].confidence = kept[i].conf

C9_Witness ==
  /\ entry = "process_frame_results"
  /\ pc = "done"
  /\ Len(bat_results.boxes) = 2
  /\ bat_results.boxes[1].conf = ConfThreshold
  /\ bat_results.boxes[2].conf > ConfThreshold
  /\ Len(frame_data.bat_detections) = 1
  /\ frame_data.bat_detections[1].confidence = bat_results.boxes[2].conf

(* C10: with max_attempts <= 0 load_model_with_retry makes no load         *)
(* attempt, prints nothing, raises nothing and returns None.               *)
C10_NonPositiveAttemptsReturnNone ==
  (entry = "load_model_with_retry" /\ max_attempts <= 0) =>
    /\ loadLog = <<>>
    /\ stdout = <<>>
    /\ sleeps = 0
    /\ raised = NoExc
    /\ pc \in {"lmr_28", "done"}
    /\ (pc = "done" => result = NoneVal)

C10_Witness ==
  /\ entry = "load_model_with_retry"
  /\ max_attempts < 0
  /\ pc = "done"
  /\ result = NoneVal
  /\ loadLog = <<>>

====
